---------------------------- MODULE Spec2Model ----------------------------
(***************************************************************************)
(* A model of grub-core/commands/efi/efivar.c: the efivar command, which   *)
(* reads an EFI variable and prints it or stores it in an environment      *)
(* variable, and the four pure helpers it is built from (utf16le_to_utf8,  *)
(* format_as_uint, parse_hex_bytes/hexval, parse_guid).                    *)
(*                                                                         *)
(* Representation.  A C string or a byte buffer is a sequence of numbers   *)
(* 0..255 (characters by their ASCII code); C's 0-based data[i] is         *)
(* At(data, i).  The null pointer is NULL.  An integer wider than 31 bits  *)
(* (grub_uint32_t data1, the grub_uint64_t value of format_as_uint) is the *)
(* sequence of its base-256 digits, least significant first, so that       *)
(* limb k has weight 256^k; narrower integers are plain numbers.           *)
(***************************************************************************)
EXTENDS Integers, Sequences, FiniteSets, TLC

VARIABLES
  \* ---- one invocation of grub_cmd_efivar ----
  args,         \* the argument list (argc = Len(args))
  pc,           \* position of the running function
  set_env,      \* --set target, or NULL
  format,       \* output_format_t
  name,         \* variable name, or NULL
  guid,         \* the GUID handed to the fetch (global or guid_local)
  guid_local,   \* the local grub_guid_t parse_guid writes into
  data,         \* the blob pointer: NULL or the bytes
  datasize,     \* the length the fetch reported
  output,       \* the rendered text buffer, or NULL
  err,          \* the value returned by the function behind pc
  fetches,      \* the calls of grub_efi_get_variable: arguments and answer
  printed,      \* the texts written by grub_printf, in order
  envWrites,    \* the (name, value) pairs given to grub_env_set, in order
  blobFrees,    \* number of grub_free (data) calls
  outputFrees,  \* number of grub_free (output) calls
  fmtCalls,     \* the formatting functions called, in order
  \* ---- one call of a pure helper ----
  input,        \* the helper's arguments
  result        \* the helper's return value (and what it stored)

cmdVars  == << args, set_env, format, name, guid, guid_local, data, datasize,
               output, fetches, printed, envWrites, blobFrees,
               outputFrees, fmtCalls >>
vars     == << cmdVars, pc, err, input, result >>

\* The null pointer: unequal to every string and every buffer.
NULL == << -1 >>

\* The null char pointer a formatting function returns; a non-null one is
\* the record of the allocation (its size, the bytes stored into it).
NULL_OUT == [ null |-> TRUE ]

\* C's data[i], i counted from 0.
At(data_, i) == data_[i + 1]

\* 2^n.
RECURSIVE Pow2(_)
Pow2(n) == IF n = 0 THEN 1 ELSE 2 * Pow2(n - 1)

\* a | b and a & b on non-negative integers, bit by bit.
RECURSIVE BitOr(_, _)
BitOr(a, b) ==
  IF a = 0 THEN b
  ELSE IF b = 0 THEN a
  ELSE (IF a % 2 = 1 \/ b % 2 = 1 THEN 1 ELSE 0) + 2 * BitOr(a \div 2, b \div 2)

RECURSIVE BitAnd(_, _)
BitAnd(a, b) ==
  IF a = 0 \/ b = 0 THEN 0
  ELSE (IF a % 2 = 1 /\ b % 2 = 1 THEN 1 ELSE 0) + 2 * BitAnd(a \div 2, b \div 2)

Shl(a, n) == a * Pow2(n)
Shr(a, n) == a \div Pow2(n)

\* The conversions (char), (grub_uint8_t) and (grub_uint16_t).
ToU8(x)  == x % 256
ToU16(x) == x % 65536

\* The C string held in a buffer: the bytes before the first NUL.
RECURSIVE CStr(_)
CStr(buf) ==
  IF buf = << >> \/ Head(buf) = 0 THEN << >> ELSE << Head(buf) >> \o CStr(Tail(buf))

\* All sequences over S of length at most n.
SeqsUpTo(S, n) == UNION { [ 1..k -> S ] : k \in 0..n }

(***************************************************************************)
(* utf16le_to_utf8                                                         *)
(***************************************************************************)

\* grub_uint16_t c = data[i] | (data[i + 1] << 8);
CodeUnit(data_, i) == ToU16(BitOr(At(data_, i), Shl(At(data_, i + 1), 8)))

\* The first pass's contribution of one code unit to out_len.
UnitLen(c) == IF c < 128 THEN 1 ELSE IF c < 2048 THEN 2 ELSE 3

\* A second pass that stores the low six bits without the 0x80 marker.
UnitBytes_nomark(c) ==
  IF c < 128 THEN << ToU8(c) >>
  ELSE IF c < 2048
    THEN << ToU8(BitOr(192, Shr(c, 6))), ToU8(BitAnd(c, 63)) >>
    ELSE << ToU8(BitOr(224, Shr(c, 12))),
            ToU8(BitOr(128, BitAnd(Shr(c, 6), 63))),
            ToU8(BitAnd(c, 63)) >>

\* The bytes the second pass stores for one code unit.
UnitBytes(c) ==
  IF c < 128 THEN << ToU8(c) >>
  ELSE IF c < 2048
    THEN << ToU8(BitOr(192, Shr(c, 6))), ToU8(BitOr(128, BitAnd(c, 63))) >>
    ELSE << ToU8(BitOr(224, Shr(c, 12))),
            ToU8(BitOr(128, BitAnd(Shr(c, 6), 63))),
            ToU8(BitOr(128, BitAnd(c, 63))) >>

\* The first loop, from index i on: the value added to out_len.
RECURSIVE Utf16OutLen(_, _, _)
Utf16OutLen(data_, datasize_, i) ==
  IF ~(i + 1 < datasize_) THEN 0
  ELSE LET c == CodeUnit(data_, i)
       IN  IF c = 0 THEN 0 ELSE UnitLen(c) + Utf16OutLen(data_, datasize_, i + 2)

\* The second loop, from index i on: the bytes stored at out[pos++].
RECURSIVE Utf16Fill(_, _, _)
Utf16Fill(data_, datasize_, i) ==
  IF ~(i + 1 < datasize_) THEN << >>
  ELSE LET c == CodeUnit(data_, i)
       IN  IF c = 0 THEN << >> ELSE UnitBytes(c) \o Utf16Fill(data_, datasize_, i + 2)

\* utf16le_to_utf8 (data, datasize), grub_malloc succeeding or not.  The
\* result is NULL_OUT or the record of the allocation: its size and the bytes
\* stored into it, the terminator out[pos] = '\0' last.
utf16le_to_utf8(data_, datasize_, mallocOk) ==
  LET out_len == Utf16OutLen(data_, datasize_, 0)
  IN  IF ~mallocOk THEN NULL_OUT
      ELSE [ size |-> out_len + 1,
             buf  |-> Utf16Fill(data_, datasize_, 0) \o << 0 >> ]


(***************************************************************************)
(* format_as_uint                                                          *)
(***************************************************************************)

UintFormats == { "FORMAT_UINT8", "FORMAT_UINT16", "FORMAT_UINT32", "FORMAT_UINT64" }
Formats     == { "FORMAT_STRING" } \cup UintFormats

\* The switch setting required_size; 0 stands for the default: return NULL.
RequiredSize(format_) ==
  CASE format_ = "FORMAT_UINT8"  -> 1
    [] format_ = "FORMAT_UINT16" -> 2
    [] format_ = "FORMAT_UINT32" -> 4
    [] format_ = "FORMAT_UINT64" -> 8
    [] OTHER                     -> 0

\* grub_uint64_t values: eight base-256 limbs, least significant first.
U64Zero == [ k \in 1..8 |-> 0 ]
U64IsZero(v) == \A k \in 1..8 : v[k] = 0
U64Or(a, b) == [ k \in 1..8 |-> BitOr(a[k], b[k]) ]

\* ((grub_uint64_t) b) << sh for a byte b and 0 <= sh < 64: the bits
\* shifted past bit 63 are lost.
U64ByteShl(b, sh) ==
  LET w == b * Pow2(sh % 8)
      k == (sh \div 8) + 1
  IN  [ j \in 1..8 |-> IF j = k THEN w % 256 ELSE IF j = k + 1 THEN w \div 256 ELSE 0 ]

\* A loop body that assembles the bytes most significant first.
AssembleStep_be(value, data_, i, required_size) ==
  U64Or(value, U64ByteShl(At(data_, i), (required_size - 1 - i) * 8))

\* value |= ((grub_uint64_t) data[i]) << (i * 8);
AssembleStep(value, data_, i, required_size) ==
  U64Or(value, U64ByteShl(At(data_, i), i * 8))

\* for (i = 0; i < required_size; i++) ..., from index i on.
RECURSIVE AssembleLoop(_, _, _, _)
AssembleLoop(value, data_, i, required_size) ==
  IF ~(i < required_size) THEN value
  ELSE AssembleLoop(AssembleStep(value, data_, i, required_size),
                    data_, i + 1, required_size)

\* v / 10 and v % 10 by long division, most significant limb first.
RECURSIVE U64DivMod10From(_, _, _, _)
U64DivMod10From(v, k, rem, q) ==
  IF k = 0 THEN [ q |-> q, r |-> rem ]
  ELSE LET cur == rem * 256 + v[k]
       IN  U64DivMod10From(v, k - 1, cur % 10, [ q EXCEPT ![k] = cur \div 10 ])
U64DivMod10(v) == U64DivMod10From(v, 8, 0, U64Zero)

\* The decimal digits of v > 0, as characters.
RECURSIVE DecDigits(_)
DecDigits(v) ==
  IF U64IsZero(v) THEN << >>
  ELSE LET d == U64DivMod10(v) IN DecDigits(d.q) \o << 48 + d.r >>

\* grub_snprintf (out, n, "%llu", v): at most n - 1 characters and a NUL.
snprintf_llu(n, v) ==
  LET text == IF U64IsZero(v) THEN << 48 >> ELSE DecDigits(v)
      kept == IF Len(text) < n THEN text ELSE SubSeq(text, 1, n - 1)
  IN  kept \o << 0 >>

\* format_as_uint (data, datasize, format), grub_malloc succeeding or not.
format_as_uint(data_, datasize_, format_, mallocOk) ==
  LET required_size == RequiredSize(format_)
  IN  IF required_size = 0 THEN NULL_OUT
      ELSE IF datasize_ < required_size THEN NULL_OUT
      ELSE LET value == AssembleLoop(U64Zero, data_, 0, required_size)
           IN  IF ~mallocOk THEN NULL_OUT
               ELSE [ size |-> 32, buf |-> snprintf_llu(32, value) ]

(***************************************************************************)
(* hexval, parse_hex_bytes, parse_guid                                     *)
(***************************************************************************)

\* hexval (c): '0' = 48, '9' = 57, 'a' = 97, 'f' = 102, 'A' = 65, 'F' = 70.
hexval(c) ==
  IF c >= 48 /\ c <= 57 THEN c - 48
  ELSE IF c >= 97 /\ c <= 102 THEN c - 97 + 10
  ELSE IF c >= 65 /\ c <= 70 THEN c - 65 + 10
  ELSE -1

\* The loop of parse_hex_bytes (s + p, nbytes, out + o), from index i on:
\* the return value and the destination as the stores so far left it.
RECURSIVE ParseHexLoop(_, _, _, _, _, _)
ParseHexLoop(s, p, nbytes, out, o, i) ==
  IF ~(i < nbytes) THEN [ ret |-> 0, out |-> out ]
  ELSE LET h == hexval(At(s, p + i * 2))
           l == hexval(At(s, p + i * 2 + 1))
       IN  IF h < 0 \/ l < 0 THEN [ ret |-> -1, out |-> out ]
           ELSE ParseHexLoop(s, p, nbytes,
                             [ out EXCEPT ![o + i + 1] = ToU8(BitOr(Shl(h, 4), l)) ],
                             o, i + 1)

parse_hex_bytes(s, p, nbytes, out, o) == ParseHexLoop(s, p, nbytes, out, o, 0)

\* grub_uint32_t values: four base-256 limbs, least significant first.
U32Or(a, b) == [ k \in 1..4 |-> BitOr(a[k], b[k]) ]
U32ByteShl(b, sh) ==
  LET w == b * Pow2(sh % 8)
      k == (sh \div 8) + 1
  IN  [ j \in 1..4 |-> IF j = k THEN w % 256 ELSE IF j = k + 1 THEN w \div 256 ELSE 0 ]

\* A data1 assembled from tmp in the opposite byte order.
Data1Of_le(tmp) ==
  U32Or(U32Or(U32ByteShl(At(tmp, 3), 24), U32ByteShl(At(tmp, 2), 16)),
        U32Or(U32ByteShl(At(tmp, 1), 8), U32ByteShl(At(tmp, 0), 0)))

\* ((grub_uint32_t) tmp[0] << 24) | ((grub_uint32_t) tmp[1] << 16)
\*   | ((grub_uint32_t) tmp[2] << 8) | tmp[3]
Data1Of(tmp) ==
  U32Or(U32Or(U32ByteShl(At(tmp, 0), 24), U32ByteShl(At(tmp, 1), 16)),
        U32Or(U32ByteShl(At(tmp, 2), 8), U32ByteShl(At(tmp, 3), 0)))

\* ((grub_uint16_t) tmp[0] << 8) | tmp[1], stored into a grub_uint16_t.
Data16Of(tmp) == ToU16(BitOr(ToU16(Shl(At(tmp, 0), 8)), At(tmp, 1)))

\* grub_strlen (s) != 36 || s[8] != '-' || s[13] != '-' || s[18] != '-'
\*   || s[23] != '-'   ('-' = 45; || evaluates left to right)
GuidShapeBad(s) ==
  \/ Len(s) # 36
  \/ At(s, 8) # 45 \/ At(s, 13) # 45 \/ At(s, 18) # 45 \/ At(s, 23) # 45

\* The local array grub_uint8_t tmp[16] before anything is stored in it.
TmpUnset == [ k \in 1..16 |-> -1 ]

\* parse_guid (s, guid): the return value and *guid as the stores made
\* before the return left it.  guid_ is *guid at the call.
parse_guid(s, guid_) ==
  IF s = NULL THEN [ ret |-> -1, guid |-> guid_ ]
  ELSE IF GuidShapeBad(s) THEN [ ret |-> -1, guid |-> guid_ ]
  ELSE
    LET r1 == parse_hex_bytes(s, 0, 4, TmpUnset, 0)
        g1 == [ guid_ EXCEPT !.data1 = Data1Of(r1.out) ]
        r2 == parse_hex_bytes(s, 9, 2, r1.out, 0)
        g2 == [ g1 EXCEPT !.data2 = Data16Of(r2.out) ]
        r3 == parse_hex_bytes(s, 14, 2, r2.out, 0)
        g3 == [ g2 EXCEPT !.data3 = Data16Of(r3.out) ]
        r4 == parse_hex_bytes(s, 19, 2, g3.data4, 0)
        g4 == [ g3 EXCEPT !.data4 = r4.out ]
        r5 == parse_hex_bytes(s, 24, 6, g4.data4, 2)
        g5 == [ g4 EXCEPT !.data4 = r5.out ]
    IN  IF r1.ret < 0 THEN [ ret |-> -1, guid |-> guid_ ]
        ELSE IF r2.ret < 0 THEN [ ret |-> -1, guid |-> g1 ]
        ELSE IF r3.ret < 0 THEN [ ret |-> -1, guid |-> g2 ]
        ELSE IF r4.ret < 0 THEN [ ret |-> -1, guid |-> g4 ]
        ELSE IF r5.ret < 0 THEN [ ret |-> -1, guid |-> g5 ]
        ELSE [ ret |-> 0, guid |-> g5 ]

(***************************************************************************)
(* grub_cmd_efivar: argument interpretation                                *)
(***************************************************************************)

TokSet    == << 45, 45, 115, 101, 116 >>                    \* "--set"
TokString == << 45, 45, 115, 116, 114, 105, 110, 103 >>     \* "--string"
TokUint8  == << 45, 45, 117, 105, 110, 116, 56 >>           \* "--uint8"
TokUint16 == << 45, 45, 117, 105, 110, 116, 49, 54 >>       \* "--uint16"
TokUint32 == << 45, 45, 117, 105, 110, 116, 51, 50 >>       \* "--uint32"
TokUint64 == << 45, 45, 117, 105, 110, 116, 54, 52 >>       \* "--uint64"

\* static grub_guid_t global = GRUB_EFI_GLOBAL_VARIABLE_GUID, that is
\* 8BE4DF61-93CA-11D2-AA0D-00E098032B8C.
global ==
  [ data1 |-> << 97, 223, 228, 139 >>, data2 |-> 37834, data3 |-> 4562,
    data4 |-> << 170, 13, 0, 224, 152, 3, 43, 140 >> ]

\* grub_strcmp (a, b) == 0
StrEq(a, b) == a = b

\* if (argc < 3) under --set.
SetTooFew(argc) == argc < 3

\* The --set step: the error or the new arg_idx and set_env.
ParseSet(args_) ==
  LET argc == Len(args_)
  IN  IF StrEq(At(args_, 0), TokSet)
        THEN IF SetTooFew(argc)
               THEN [ err |-> "GRUB_ERR_BAD_ARGUMENT", arg_idx |-> 0, set_env |-> NULL ]
               ELSE [ err |-> "GRUB_ERR_NONE", arg_idx |-> 2, set_env |-> At(args_, 1) ]
        ELSE [ err |-> "GRUB_ERR_NONE", arg_idx |-> 0, set_env |-> NULL ]

\* A cascade whose --uint16 branch selects FORMAT_UINT32.
FormatOption_swap(tok) ==
  IF StrEq(tok, TokString) THEN "FORMAT_STRING"
  ELSE IF StrEq(tok, TokUint8) THEN "FORMAT_UINT8"
  ELSE IF StrEq(tok, TokUint16) THEN "FORMAT_UINT32"
  ELSE IF StrEq(tok, TokUint32) THEN "FORMAT_UINT32"
  ELSE IF StrEq(tok, TokUint64) THEN "FORMAT_UINT64"
  ELSE "none"

\* The cascade of grub_strcmp tests: the format a token selects, "none"
\* when no branch is taken.
FormatOption(tok) ==
  IF StrEq(tok, TokString) THEN "FORMAT_STRING"
  ELSE IF StrEq(tok, TokUint8) THEN "FORMAT_UINT8"
  ELSE IF StrEq(tok, TokUint16) THEN "FORMAT_UINT16"
  ELSE IF StrEq(tok, TokUint32) THEN "FORMAT_UINT32"
  ELSE IF StrEq(tok, TokUint64) THEN "FORMAT_UINT64"
  ELSE "none"

\* The format step from arg_idx: the format and the new arg_idx.
ParseFormat(args_, arg_idx) ==
  IF arg_idx < Len(args_) /\ FormatOption(At(args_, arg_idx)) # "none"
    THEN [ format |-> FormatOption(At(args_, arg_idx)), arg_idx |-> arg_idx + 1 ]
    ELSE [ format |-> "FORMAT_STRING", arg_idx |-> arg_idx ]

\* A GUID test that takes only a positive return value for a failure.
GuidRejected_pos(ret) == ret > 0

\* if (parse_guid (guid_str, &guid_local) != 0)
GuidRejected(ret) == ret # 0

\* Lines 221-277: the locals when the function returns an error or reaches
\* the fetch.  guid is "global" or "guid_local", the object it points to.
Interpret(args_, guid_local_) ==
  LET argc == Len(args_)
      bad(se, fm, nm, gl) ==
        [ err |-> "GRUB_ERR_BAD_ARGUMENT", set_env |-> se, format |-> fm,
          name |-> nm, guid |-> "global", guid_local |-> gl ]
  IN  IF argc < 1 THEN bad(NULL, "FORMAT_STRING", NULL, guid_local_)
      ELSE
        LET st == ParseSet(args_)
        IN  IF st.err # "GRUB_ERR_NONE"
              THEN bad(NULL, "FORMAT_STRING", NULL, guid_local_)
            ELSE
              LET fo == ParseFormat(args_, st.arg_idx)
              IN  IF fo.arg_idx >= argc
                    THEN bad(st.set_env, fo.format, NULL, guid_local_)
                  ELSE
                    LET name_    == At(args_, fo.arg_idx)
                        arg_idx  == fo.arg_idx + 1
                        guid_str == IF arg_idx < argc THEN At(args_, arg_idx) ELSE NULL
                        pg       == parse_guid(guid_str, guid_local_)
                    IN  IF guid_str # NULL
                          THEN IF GuidRejected(pg.ret)
                                 THEN bad(st.set_env, fo.format, name_, pg.guid)
                                 ELSE [ err |-> "GRUB_ERR_NONE", set_env |-> st.set_env,
                                        format |-> fo.format, name |-> name_,
                                        guid |-> "guid_local", guid_local |-> pg.guid ]
                          ELSE [ err |-> "GRUB_ERR_NONE", set_env |-> st.set_env,
                                 format |-> fo.format, name |-> name_,
                                 guid |-> "global", guid_local |-> guid_local_ ]

\* A test that takes only a null pointer for an empty blob.
IsEmptyBlob_null(data_, datasize_) == data_ = NULL

\* if (data == NULL || datasize == 0)
IsEmptyBlob(data_, datasize_) == data_ = NULL \/ datasize_ = 0

(***************************************************************************)
(* The state of an invocation before it starts, and of a helper call.      *)
(***************************************************************************)

\* grub_guid_t guid_local before anything is stored in it.
GuidUnset == [ data1 |-> NULL, data2 |-> -1, data3 |-> -1, data4 |-> [ k \in 1..8 |-> -1 ] ]

CmdIdle ==
  /\ args = << >>      /\ set_env = NULL   /\ format = "FORMAT_STRING"
  /\ name = NULL       /\ guid = "global"  /\ guid_local = GuidUnset
  /\ data = NULL       /\ datasize = 0     /\ output = NULL_OUT
  /\ fetches = << >> /\ printed = << >> /\ envWrites = << >>
  /\ blobFrees = 0     /\ outputFrees = 0  /\ fmtCalls = << >>

NoResult == [ none |-> TRUE ]

(***************************************************************************)
(* Spec: one invocation of grub_cmd_efivar, for every argument list of a   *)
(* bounded set and every answer of grub_efi_get_variable and grub_malloc.  *)
(***************************************************************************)

TokMyVar == << 77, 121, 86, 97, 114 >>                      \* "MyVar"
\* "8BE4DF61-93CA-11D2-AA0D-00E098032B8C"
TokGuid  == << 56, 66, 69, 52, 68, 70, 54, 49, 45, 57, 51, 67, 65, 45, 49, 49,
               68, 50, 45, 65, 65, 48, 68, 45, 48, 48, 69, 48, 57, 56, 48, 51,
               50, 66, 56, 67 >>
\* The same with 'G' for its last character.
TokBadGuid == [ TokGuid EXCEPT ![36] = 71 ]

FormatTokens == { TokString, TokUint8, TokUint16, TokUint32, TokUint64 }
Tokens == { TokSet, TokMyVar, TokGuid, TokBadGuid } \cup FormatTokens

MaxArgc == 4

\* Every list of at most MaxArgc tokens, and every list of the full syntax
\* efivar --set <env> <format> <name> <guid>.
ArgLists ==
  SeqsUpTo(Tokens, MaxArgc)
    \cup { << TokSet, TokMyVar, f, n, g >> :
             f \in FormatTokens, n \in { TokMyVar, TokGuid }, g \in { TokGuid, TokBadGuid } }

MaxBlobLen == 4

\* The blobs of the store: the first n bytes of 2A 00 41 00 2A 00 41 00 ...,
\* for every n up to MaxBlobLen and for n = 8, the widest integer.
BlobOfLen(n) == [ k \in 1..n |-> IF k % 2 = 0 THEN 0 ELSE IF k % 4 = 1 THEN 42 ELSE 65 ]
BlobLengths == 0..MaxBlobLen \cup { 8 }

\* What grub_efi_get_variable may answer: an error, success with no data
\* (whatever length it reports), or success with an allocated buffer of
\* 0..MaxBlobLen bytes.
FetchErrors == { "GRUB_ERR_FILE_NOT_FOUND", "GRUB_ERR_OUT_OF_MEMORY" }
FetchResults ==
  { [ err |-> e, data |-> NULL, datasize |-> 0 ] : e \in FetchErrors }
    \cup { [ err |-> "GRUB_ERR_NONE", data |-> NULL, datasize |-> n ] : n \in { 0, 1 } }
    \cup { [ err |-> "GRUB_ERR_NONE", data |-> BlobOfLen(n), datasize |-> n ] :
             n \in BlobLengths }

\* The object guid points to.
GuidValue == IF guid = "global" THEN global ELSE guid_local

Init ==
  /\ args \in ArgLists
  /\ set_env = NULL    /\ format = "FORMAT_STRING"
  /\ name = NULL       /\ guid = "global"  /\ guid_local = GuidUnset
  /\ data = NULL       /\ datasize = 0     /\ output = NULL_OUT
  /\ fetches = << >> /\ printed = << >> /\ envWrites = << >>
  /\ blobFrees = 0     /\ outputFrees = 0  /\ fmtCalls = << >>
  /\ pc = "parse" /\ err = "GRUB_ERR_NONE"
  /\ input = NoResult /\ result = NoResult

\* Lines 221-277.
ParseArgs ==
  /\ pc = "parse"
  /\ LET r == Interpret(args, guid_local)
     IN  /\ set_env' = r.set_env
         /\ format' = r.format
         /\ name' = r.name
         /\ guid' = r.guid
         /\ guid_local' = r.guid_local
         /\ err' = r.err
         /\ pc' = IF r.err = "GRUB_ERR_NONE" THEN "fetch" ELSE "done"
  /\ UNCHANGED << args, data, datasize, output, fetches, printed, envWrites,
                  blobFrees, outputFrees, fmtCalls, input, result >>

\* Lines 280-282.
GetVariable ==
  /\ pc = "fetch"
  /\ \E r \in FetchResults :
       /\ fetches' = Append(fetches, [ name |-> name, guid |-> GuidValue, answer |-> r ])
       /\ data' = r.data
       /\ datasize' = r.datasize
       /\ err' = r.err
       /\ pc' = IF r.err # "GRUB_ERR_NONE" THEN "done" ELSE "fetched"
  /\ UNCHANGED << args, set_env, format, name, guid, guid_local, output, printed,
                  envWrites, blobFrees, outputFrees, fmtCalls, input, result >>

\* Lines 284-288.
EmptyReturn ==
  /\ pc = "fetched"
  /\ IsEmptyBlob(data, datasize)
  /\ printed' = Append(printed, << >>)
  /\ err' = "GRUB_ERR_NONE"
  /\ pc' = "done"
  /\ UNCHANGED << args, set_env, format, name, guid, guid_local, data, datasize,
                  output, fetches, envWrites, blobFrees, outputFrees, fmtCalls,
                  input, result >>

\* Lines 291-301.
FormatOutput ==
  /\ pc = "fetched"
  /\ ~IsEmptyBlob(data, datasize)
  /\ \E mallocOk \in BOOLEAN :
       IF format = "FORMAT_STRING"
         THEN /\ output' = utf16le_to_utf8(data, datasize, mallocOk)
              /\ fmtCalls' = Append(fmtCalls, "utf16le_to_utf8")
         ELSE /\ output' = format_as_uint(data, datasize, format, mallocOk)
              /\ fmtCalls' = Append(fmtCalls, "format_as_uint")
  /\ pc' = "formatted"
  /\ UNCHANGED << args, set_env, format, name, guid, guid_local, data, datasize,
                  fetches, printed, envWrites, blobFrees, outputFrees, err,
                  input, result >>

\* Lines 303-307.
FormatFailure ==
  /\ pc = "formatted"
  /\ output = NULL_OUT
  /\ blobFrees' = blobFrees + 1
  /\ err' = "GRUB_ERR_OUT_OF_MEMORY"
  /\ pc' = "done"
  /\ UNCHANGED << args, set_env, format, name, guid, guid_local, data, datasize,
                  output, fetches, printed, envWrites, outputFrees, fmtCalls,
                  input, result >>

\* Lines 309-313.
EmitStore ==
  /\ pc = "formatted"
  /\ output # NULL_OUT
  /\ set_env # NULL
  /\ envWrites' = Append(envWrites, << set_env, CStr(output.buf) >>)
  /\ pc' = "emitted"
  /\ UNCHANGED << args, set_env, format, name, guid, guid_local, data, datasize,
                  output, fetches, printed, blobFrees, outputFrees, fmtCalls,
                  err, input, result >>

\* Lines 314-317.
EmitPrint ==
  /\ pc = "formatted"
  /\ output # NULL_OUT
  /\ set_env = NULL
  /\ printed' = Append(printed, CStr(output.buf))
  /\ pc' = "emitted"
  /\ UNCHANGED << args, set_env, format, name, guid, guid_local, data, datasize,
                  output, fetches, envWrites, blobFrees, outputFrees, fmtCalls,
                  err, input, result >>

\* Lines 319-321.
Release ==
  /\ pc = "emitted"
  /\ blobFrees' = blobFrees + 1
  /\ outputFrees' = outputFrees + 1
  /\ err' = "GRUB_ERR_NONE"
  /\ pc' = "done"
  /\ UNCHANGED << args, set_env, format, name, guid, guid_local, data, datasize,
                  output, fetches, printed, envWrites, fmtCalls, input, result >>

Next ==
  \/ ParseArgs
  \/ GetVariable
  \/ EmptyReturn
  \/ FormatOutput
  \/ FormatFailure
  \/ EmitStore
  \/ EmitPrint
  \/ Release

Spec == Init /\ [][Next]_vars

(***************************************************************************)
(* SpecUtf16: utf16le_to_utf8 applied to every buffer of a bounded set,    *)
(* with grub_malloc succeeding or failing.                                 *)
(***************************************************************************)

MaxUtf16Len == 6
Utf16Bytes   == { 0, 7, 8, 65, 216, 255 }
Utf16Example == << 65, 0, 66, 0, 0, 0 >>
Utf16Buffers == SeqsUpTo(Utf16Bytes, MaxUtf16Len) \cup { Utf16Example }

InitUtf16 ==
  /\ CmdIdle
  /\ pc = "call" /\ err = "GRUB_ERR_NONE" /\ result = NoResult
  /\ \E b \in Utf16Buffers, m \in BOOLEAN :
       input = [ data |-> b, datasize |-> Len(b), mallocOk |-> m ]

CallUtf16 ==
  /\ pc = "call"
  /\ result' = utf16le_to_utf8(input.data, input.datasize, input.mallocOk)
  /\ pc' = "returned"
  /\ UNCHANGED << cmdVars, err, input >>

NextUtf16 == CallUtf16
SpecUtf16 == InitUtf16 /\ [][NextUtf16]_vars

(***************************************************************************)
(* SpecUint: format_as_uint applied to every buffer of a bounded set and   *)
(* every format, with grub_malloc succeeding or failing.                   *)
(***************************************************************************)

MaxUintLen == 8
UintBytes   == { 0, 42, 255 }
\* Nine-byte buffers: a byte follows the eight that FORMAT_UINT64 reads.
UintLong    == { [ k \in 1..9 |-> IF k = 9 THEN x ELSE IF k \in { 1, 8 } THEN y ELSE z ] :
                   x \in UintBytes, y \in UintBytes, z \in UintBytes }
UintBuffers == SeqsUpTo(UintBytes, MaxUintLen) \cup UintLong

InitUint ==
  /\ CmdIdle
  /\ pc = "call" /\ err = "GRUB_ERR_NONE" /\ result = NoResult
  /\ \E b \in UintBuffers, f \in Formats, m \in BOOLEAN :
       input = [ data |-> b, datasize |-> Len(b), format |-> f, mallocOk |-> m ]

CallUint ==
  /\ pc = "call"
  /\ result' = format_as_uint(input.data, input.datasize, input.format,
                              input.mallocOk)
  /\ pc' = "returned"
  /\ UNCHANGED << cmdVars, err, input >>

NextUint == CallUint
SpecUint == InitUint /\ [][NextUint]_vars

(***************************************************************************)
(* SpecGuid: parse_guid applied to every text of a bounded set: two        *)
(* canonical texts, each also cut short, extended, with two neighbouring   *)
(* characters exchanged, and with one character replaced.                  *)
(***************************************************************************)

\* "8BE4DF61-93CA-11D2-AA0D-00E098032B8C"
GuidTextA == << 56, 66, 69, 52, 68, 70, 54, 49, 45, 57, 51, 67, 65, 45, 49, 49,
                68, 50, 45, 65, 65, 48, 68, 45, 48, 48, 69, 48, 57, 56, 48, 51,
                50, 66, 56, 67 >>
\* "01234567-89ab-cdef-ABCD-EFfedcba9876"
GuidTextB == << 48, 49, 50, 51, 52, 53, 54, 55, 45, 56, 57, 97, 98, 45, 99, 100,
                101, 102, 45, 65, 66, 67, 68, 45, 69, 70, 102, 101, 100, 99, 98,
                97, 57, 56, 55, 54 >>
GuidBases == { GuidTextA, GuidTextB }

\* The replacement characters: the ends of the three digit ranges, their
\* outer neighbours ('/' ':' '@' 'G' '`' 'g') and the dash.
GuidChars == { 48, 57, 97, 102, 65, 70, 47, 58, 64, 71, 96, 103, 45 }

MaxGuidExtra == 1

GuidTexts ==
  UNION { { [ b EXCEPT ![p] = c ] : p \in 1..36, c \in GuidChars }
          \cup { SubSeq(b, 1, n) : n \in 0..36 }
          \cup { [ b EXCEPT ![p] = b[p + 1], ![p + 1] = b[p] ] : p \in 1..35 }
          \cup { b \o e : e \in SeqsUpTo({ 48 }, MaxGuidExtra) }
        : b \in GuidBases }

InitGuid ==
  /\ CmdIdle
  /\ pc = "call" /\ err = "GRUB_ERR_NONE" /\ result = NoResult
  /\ \E s \in GuidTexts : input = [ s |-> s ]

CallGuid ==
  /\ pc = "call"
  /\ result' = parse_guid(input.s, GuidUnset)
  /\ pc' = "returned"
  /\ UNCHANGED << cmdVars, err, input >>

NextGuid == CallGuid
SpecGuid == InitGuid /\ [][NextGuid]_vars

(***************************************************************************)
(* Properties of utf16le_to_utf8 (SpecUtf16)                               *)
(***************************************************************************)

\* The little-endian 16-bit code units of a buffer, a trailing odd byte
\* left out.
CodeUnitsOf(b) == [ k \in 1..(Len(b) \div 2) |-> b[2 * k - 1] + 256 * b[2 * k] ]

\* The units before the first zero unit.
RECURSIVE BeforeZero(_)
BeforeZero(us) ==
  IF us = << >> \/ Head(us) = 0 THEN << >> ELSE << Head(us) >> \o BeforeZero(Tail(us))

\* The encoding of one unit, by arithmetic.
EncodingOf(c) ==
  IF c < 128 THEN << c >>
  ELSE IF c < 2048 THEN << 192 + (c \div 64), 128 + (c % 64) >>
  ELSE << 224 + (c \div 4096), 128 + ((c \div 64) % 64), 128 + (c % 64) >>

RECURSIVE ConcatEncodings(_)
ConcatEncodings(us) ==
  IF us = << >> THEN << >> ELSE EncodingOf(Head(us)) \o ConcatEncodings(Tail(us))

\* C9: whenever the allocation succeeds, the text utf16le_to_utf8 stores is
\* exactly the concatenated 1/2/3-byte encodings of the code units before
\* the first zero unit (or the end of the buffer, an odd last byte ignored),
\* followed by the terminator; the count of bytes stored equals the size
\* allocated from the first pass's length, so the terminator is the last
\* byte of the allocation.  When the allocation fails the result is null.
C9_Utf16Encoding ==
  pc = "returned" =>
    IF input.mallocOk
      THEN /\ result # NULL_OUT
           /\ result.buf = ConcatEncodings(BeforeZero(CodeUnitsOf(input.data))) \o << 0 >>
           /\ Len(result.buf) = result.size
           /\ CStr(result.buf) = SubSeq(result.buf, 1, result.size - 1)
      ELSE result = NULL_OUT

\* The spec's example: 41 00 42 00 00 00 gives "AB".
C9_Witness ==
  /\ pc = "returned"
  /\ input.data = Utf16Example
  /\ result # NULL_OUT
  /\ CStr(result.buf) = << 65, 66 >>
  /\ result.size = 3

(***************************************************************************)
(* Properties of format_as_uint (SpecUint)                                 *)
(***************************************************************************)

\* The width the claim gives each integer format.
WidthOf(f) ==
  CASE f = "FORMAT_UINT8" -> 1 [] f = "FORMAT_UINT16" -> 2
    [] f = "FORMAT_UINT32" -> 4 [] f = "FORMAT_UINT64" -> 8

\* v * 10 + d on eight base-256 limbs, from limb k on; the carry out of the
\* last limb is returned with the limbs.
RECURSIVE MulAdd10From(_, _, _)
MulAdd10From(v, k, carry) ==
  IF k > 8 THEN [ v |-> v, carry |-> carry ]
  ELSE LET cur == v[k] * 10 + carry
       IN  MulAdd10From([ v EXCEPT ![k] = cur % 256 ], k + 1, cur \div 256)

\* The number a digit string denotes, on eight limbs; over is TRUE when it
\* does not fit 64 bits.
RECURSIVE DecimalValueFrom(_, _, _)
DecimalValueFrom(text, v, over) ==
  IF text = << >> THEN [ v |-> v, over |-> over ]
  ELSE LET m == MulAdd10From(v, 1, Head(text) - 48)
       IN  DecimalValueFrom(Tail(text), m.v, over \/ m.carry # 0)
DecimalValue(text) == DecimalValueFrom(text, [ k \in 1..8 |-> 0 ], FALSE)

\* An unsigned decimal numeral: digits only, no sign, no leading zero.
IsDecimalNumeral(text) ==
  /\ Len(text) >= 1
  /\ \A k \in 1..Len(text) : text[k] \in 48..57
  /\ Len(text) > 1 => text[1] # 48

\* C8: for an integer format of width r <= the buffer length, format_as_uint
\* (when the allocation succeeds) renders the unsigned decimal numeral, with
\* no sign and no leading zeros, of the 64-bit value sum over i < r of
\* bytes[i] * 2^(8*i); the bytes at index >= r do not enter it.
C8_UintDecimal ==
  (pc = "returned" /\ input.format \in UintFormats
     /\ WidthOf(input.format) <= Len(input.data)) =>
    IF input.mallocOk
      THEN /\ result # NULL_OUT
           /\ LET text == CStr(result.buf)
                  r    == WidthOf(input.format)
              IN  /\ IsDecimalNumeral(text)
                  /\ DecimalValue(text) =
                       [ v    |-> [ k \in 1..8 |-> IF k <= r THEN input.data[k] ELSE 0 ],
                         over |-> FALSE ]
      ELSE result = NULL_OUT

\* The spec's example: 2A 00 00 00 as UInt32 gives "42".
C8_Witness ==
  /\ pc = "returned"
  /\ input.data = << 42, 0, 0, 0 >>
  /\ input.format = "FORMAT_UINT32"
  /\ result # NULL_OUT
  /\ CStr(result.buf) = << 52, 50 >>

(***************************************************************************)
(* Properties of parse_guid (SpecGuid)                                     *)
(***************************************************************************)

HexLower == << 48, 49, 50, 51, 52, 53, 54, 55, 56, 57, 97, 98, 99, 100, 101, 102 >>
HexUpper == << 48, 49, 50, 51, 52, 53, 54, 55, 56, 57, 65, 66, 67, 68, 69, 70 >>
HexChars == { HexLower[v] : v \in 1..16 } \cup { HexUpper[v] : v \in 1..16 }
\* The value of each hex digit: its place in the two tables.
HexTable ==
  [ c \in HexChars |-> (CHOOSE v \in 1..16 : c = HexLower[v] \/ c = HexUpper[v]) - 1 ]
IsHexChar(c) == c \in HexChars
DigitValue(c) == HexTable[c]
LowerOf(c) == IF IsHexChar(c) THEN HexLower[DigitValue(c) + 1] ELSE c

\* Canonical GUID text: 36 characters, '-' at offsets 8, 13, 18 and 23,
\* hex digits elsewhere.
WellFormedGuid(s) ==
  /\ Len(s) = 36
  /\ \A k \in 1..36 : IF k \in { 9, 14, 19, 24 } THEN s[k] = 45 ELSE IsHexChar(s[k])

\* The byte written as the two hex digits at offsets o and o + 1 of s.
ByteAt(s, o) == 16 * DigitValue(s[o + 1]) + DigitValue(s[o + 2])

\* Two lowercase hex digits of a byte.
Hex2(b) == << HexLower[(b \div 16) + 1], HexLower[(b % 16) + 1] >>

\* The canonical textual layout of a GUID:
\* %08x-%04x-%04x-%02x%02x-%02x%02x%02x%02x%02x%02x.
RenderGuid(g) ==
  Hex2(g.data1[4]) \o Hex2(g.data1[3]) \o Hex2(g.data1[2]) \o Hex2(g.data1[1])
    \o << 45 >> \o Hex2(g.data2 \div 256) \o Hex2(g.data2 % 256)
    \o << 45 >> \o Hex2(g.data3 \div 256) \o Hex2(g.data3 % 256)
    \o << 45 >> \o Hex2(g.data4[1]) \o Hex2(g.data4[2])
    \o << 45 >> \o Hex2(g.data4[3]) \o Hex2(g.data4[4]) \o Hex2(g.data4[5])
    \o Hex2(g.data4[6]) \o Hex2(g.data4[7]) \o Hex2(g.data4[8])

\* C7: for canonical GUID text parse_guid succeeds with data1 the first 8
\* hex digits as one big-endian 32-bit number, data2 and data3 the next two
\* groups as big-endian 16-bit numbers, data4 the bytes of the last two
\* groups in textual order, upper and lower case alike; rendering the fields
\* in the canonical layout gives the text back in lower case.
C7_GuidFields ==
  (pc = "returned" /\ WellFormedGuid(input.s)) =>
    LET s == input.s
        g == result.guid
    IN  /\ result.ret = 0
        /\ g.data1 = << ByteAt(s, 6), ByteAt(s, 4), ByteAt(s, 2), ByteAt(s, 0) >>
        /\ g.data2 = 256 * ByteAt(s, 9) + ByteAt(s, 11)
        /\ g.data3 = 256 * ByteAt(s, 14) + ByteAt(s, 16)
        /\ g.data4 = << ByteAt(s, 19), ByteAt(s, 21), ByteAt(s, 24), ByteAt(s, 26),
                        ByteAt(s, 28), ByteAt(s, 30), ByteAt(s, 32), ByteAt(s, 34) >>
        /\ RenderGuid(g) = [ k \in 1..36 |-> LowerOf(s[k]) ]

\* The spec's example: 8BE4DF61-93CA-11D2-AA0D-00E098032B8C parses to
\* data1 = 0x8BE4DF61 (limbs 61 DF E4 8B), data2 = 0x93CA, data3 = 0x11D2,
\* data4 = AA 0D 00 E0 98 03 2B 8C.
C7_Witness ==
  /\ pc = "returned"
  /\ input.s = GuidTextA
  /\ result.ret = 0
  /\ result.guid = [ data1 |-> << 97, 223, 228, 139 >>, data2 |-> 37834,
                     data3 |-> 4562,
                     data4 |-> << 170, 13, 0, 224, 152, 3, 43, 140 >> ]

\* C6: parse_guid succeeds only on canonical text, and on every other text
\* it fails having written no field of the destination.
C6_RejectsWithoutPartialOutput ==
  pc = "returned" =>
    /\ result.ret = 0 => WellFormedGuid(input.s)
    /\ ~WellFormedGuid(input.s) => (result.ret # 0 /\ result.guid = GuidUnset)

\* The part of C6 the code keeps: success exactly on canonical text.
GuidAcceptedIffWellFormed ==
  pc = "returned" => (result.ret = 0 <=> WellFormedGuid(input.s))

(***************************************************************************)
(* Properties of grub_cmd_efivar (Spec)                                    *)
(***************************************************************************)

\* The answer of the fetch, once it was called.
Fetched     == fetches # << >>
FetchedOk   == Fetched /\ fetches[1].answer.err = "GRUB_ERR_NONE"
FetchedBlob == FetchedOk /\ fetches[1].answer.data # NULL
FetchedEmpty ==
  FetchedOk /\ (fetches[1].answer.data = NULL \/ fetches[1].answer.datasize = 0)

\* The positional grammar, read off the argument list from left to right.
FlagFormat ==
  (TokString :> "FORMAT_STRING") @@ (TokUint8 :> "FORMAT_UINT8")
    @@ (TokUint16 :> "FORMAT_UINT16") @@ (TokUint32 :> "FORMAT_UINT32")
    @@ (TokUint64 :> "FORMAT_UINT64")

\* The GUID canonical text denotes.
GuidOfText(s) ==
  [ data1 |-> << ByteAt(s, 6), ByteAt(s, 4), ByteAt(s, 2), ByteAt(s, 0) >>,
    data2 |-> 256 * ByteAt(s, 9) + ByteAt(s, 11),
    data3 |-> 256 * ByteAt(s, 14) + ByteAt(s, 16),
    data4 |-> << ByteAt(s, 19), ByteAt(s, 21), ByteAt(s, 24), ByteAt(s, 26),
                 ByteAt(s, 28), ByteAt(s, 30), ByteAt(s, 32), ByteAt(s, 34) >> ]

Rejected == [ reject |-> TRUE ]

\* (1) --set and its target.
GrammarSet(a) ==
  IF a # << >> /\ Head(a) = TokSet
    THEN IF Len(a) - 1 < 2 THEN Rejected
         ELSE [ reject |-> FALSE, set_target |-> a[2], rest |-> SubSeq(a, 3, Len(a)) ]
    ELSE [ reject |-> FALSE, set_target |-> NULL, rest |-> a ]

\* (2) the optional format flag.
GrammarFormat(rest) ==
  IF rest # << >> /\ Head(rest) \in DOMAIN FlagFormat
    THEN [ format |-> FlagFormat[Head(rest)], rest |-> Tail(rest) ]
    ELSE [ format |-> "FORMAT_STRING", rest |-> rest ]

\* (3) the mandatory name and (4) the optional GUID text.
Grammar(a) ==
  LET s1 == GrammarSet(a)
  IN  IF s1.reject THEN Rejected
      ELSE LET s2 == GrammarFormat(s1.rest)
           IN  IF s2.rest = << >> THEN Rejected
               ELSE LET rest == Tail(s2.rest)
                    IN  IF rest # << >> /\ ~WellFormedGuid(Head(rest)) THEN Rejected
                        ELSE [ reject     |-> FALSE,
                               set_target |-> s1.set_target,
                               format     |-> s2.format,
                               name       |-> Head(s2.rest),
                               guid       |-> IF rest # << >> THEN GuidOfText(Head(rest))
                                              ELSE global ]

\* C1: once the fetch has handed back a buffer, the invocation returns with
\* that buffer released exactly once, and with the rendered text, if one
\* was produced, released exactly once; nothing else is released.
C1_ReleasedExactlyOnce ==
  pc = "done" =>
    /\ blobFrees = (IF FetchedBlob THEN 1 ELSE 0)
    /\ outputFrees = (IF output # NULL_OUT THEN 1 ELSE 0)

\* C2: when argument interpretation fails (empty list, --set without two
\* following tokens, no variable name, GUID text that is not canonical) the
\* fetch is never called, neither sink is invoked, and the command returns
\* the bad-argument error.
C2_NoFetchOnBadArguments ==
  Grammar(args).reject =>
    /\ fetches = << >>
    /\ printed = << >>
    /\ envWrites = << >>
    /\ pc \in { "parse", "done" }
    /\ pc = "done" => err = "GRUB_ERR_BAD_ARGUMENT"

\* A GUID token that parse_guid rejects: the command has returned the
\* bad-argument error without a fetch.
C2_Witness ==
  /\ pc = "done"
  /\ args = << TokMyVar, TokBadGuid >>
  /\ err = "GRUB_ERR_BAD_ARGUMENT"
  /\ fetches = << >>

C4_TooShortIsItsOwnError ==
  (pc = "done" /\ FetchedBlob /\ format \in UintFormats
     /\ datasize > 0 /\ datasize < WidthOf(format)) =>
    /\ err \notin { "GRUB_ERR_NONE", "GRUB_ERR_OUT_OF_MEMORY" }
    /\ printed = << >>
    /\ envWrites = << >>

\* C5: when the fetch succeeds with no data or zero length, then whatever
\* the format, no formatting function is called and the command returns
\* success having emitted one empty text.
C5_EmptyBlobBypassesFormatting ==
  FetchedEmpty =>
    /\ fmtCalls = << >>
    /\ output = NULL_OUT
    /\ pc \in { "fetched", "done" }
    /\ pc = "done" =>
         /\ err = "GRUB_ERR_NONE"
         /\ Len(printed) + Len(envWrites) = 1
         /\ \A k \in 1..Len(printed) : printed[k] = << >>
         /\ \A k \in 1..Len(envWrites) : envWrites[k][2] = << >>

\* An allocated zero-length blob under an integer format: success, and
\* format_as_uint was not called.
C5_Witness ==
  /\ pc = "done"
  /\ format = "FORMAT_UINT32"
  /\ FetchedOk
  /\ data = << >>
  /\ datasize = 0
  /\ err = "GRUB_ERR_NONE"
  /\ fmtCalls = << >>

\* C10: a successful invocation has emitted exactly once, to the named
\* variable when --set was given (nothing printed) and as one printed line
\* otherwise (no variable written); a failed invocation has emitted nothing.
C10_OneEmitToSelectedSink ==
  pc = "done" =>
    IF err = "GRUB_ERR_NONE"
      THEN IF set_env # NULL
             THEN Len(envWrites) = 1 /\ envWrites[1][1] = set_env /\ printed = << >>
             ELSE Len(printed) = 1 /\ envWrites = << >>
      ELSE printed = << >> /\ envWrites = << >>

=============================================================================
